---------------------------- MODULE Spec2Model ----------------------------
(***************************************************************************)
(* pymap3d.enu: transforms between East-North-Up (ENU), Azimuth-Elevation- *)
(* Range (AER) and geodetic coordinates.                                   *)
(*                                                                         *)
(* Python floats are modelled as binary floating-point numbers <<m, e>>    *)
(* (value m * 2^e) with a Prec-bit significand, round-to-nearest-even and  *)
(* an unbounded exponent: IEEE-754 double scaled down from 53 bits so     *)
(* that every rounding the code performs is performed by the model too.    *)
(* The elementary functions imported from numpy/math are evaluated in      *)
(* fixed point with FixBits fractional bits and rounded to Prec bits.      *)
(***************************************************************************)
EXTENDS Integers, Sequences, FiniteSets, TLC

(***************************************************************************)
(* Bounds of the model.                                                    *)
(***************************************************************************)
\* significand width of the modelled floats (53 for a Python float)
Prec == 10
\* longest array handed to the vectorised entry points
MaxLen == 2

(***************************************************************************)
(* Floating-point arithmetic (the Python float operators used by enu.py).  *)
(***************************************************************************)
Sgn(n) == IF n > 0 THEN 1 ELSE IF n < 0 THEN -1 ELSE 0

AbsInt(n) == IF n < 0 THEN -n ELSE n

RECURSIVE BitLen(_)
BitLen(n) == IF n = 0 THEN 0 ELSE 1 + BitLen(n \div 2)

Zero == <<0, 0>>

\* a / 2^k to the nearest integer, ties to even (a >= 0, k >= 1)
RoundEven(a, k) ==
    LET q    == a \div 2^k
        r    == a % 2^k
        half == 2^(k - 1)
    IN IF r > half \/ (r = half /\ q % 2 = 1) THEN q + 1 ELSE q

\* m * 2^e rounded to Prec significant bits, ties to even, normalised
Norm(m, e) ==
    LET Carry(up, x) == IF up = 2^Prec
                        THEN <<Sgn(m) * (up \div 2), x + 1>>
                        ELSE <<Sgn(m) * up, x>>
        Place(a, b)  == IF b <= Prec
                        THEN <<m * 2^(Prec - b), e - (Prec - b)>>
                        ELSE Carry(RoundEven(a, b - Prec), e + (b - Prec))
    IN IF m = 0 THEN Zero ELSE Place(AbsInt(m), BitLen(AbsInt(m)))

FromInt(n) == Norm(n, 0)

Neg(x) == <<-x[1], x[2]>>

Fabs(x) == <<AbsInt(x[1]), x[2]>>

Mul(a, b) == Norm(a[1] * b[1], a[2] + b[2])

\* correctly rounded quotient: Prec+3 quotient bits and a sticky bit
Div(a, b) ==
    LET Quot(n, d) == 2 * (n \div d) + (IF n % d # 0 THEN 1 ELSE 0)
    IN IF a[1] = 0 THEN Zero
       ELSE Norm(Sgn(a[1]) * Sgn(b[1]) * Quot(AbsInt(a[1]) * 2^(Prec + 2), AbsInt(b[1])),
                 a[2] - b[2] - (Prec + 3))

\* correctly rounded sum; an operand more than Prec+2 binades below the
\* other only decides the rounding direction
AddOrdered(a, b) ==
    Norm(IF a[2] - b[2] > Prec + 2 THEN a[1] * 8 + Sgn(b[1]) ELSE a[1] * 2^(a[2] - b[2]) + b[1],
         IF a[2] - b[2] > Prec + 2 THEN a[2] - 3 ELSE b[2])

Add(a, b) ==
    IF a[1] = 0 THEN b
    ELSE IF b[1] = 0 THEN a
    ELSE AddOrdered(IF a[2] < b[2] THEN b ELSE a, IF a[2] < b[2] THEN a ELSE b)

Sub(a, b) == Add(a, Neg(b))

Lt(a, b) == Sub(a, b)[1] < 0

Le(a, b) == ~Lt(b, a)

\* the float literal num/den, correctly rounded (e.g. 1e-3 is Dec(1, 1000))
Dec(num, den) == Div(FromInt(num), FromInt(den))

(***************************************************************************)
(* Elementary functions (numpy / math: hypot, atan2, sin, cos, pi).        *)
(***************************************************************************)
\* fractional bits of the fixed-point evaluation of the elementary functions
FixBits == 14

One == 2^FixBits

\* pi * 2^FixBits, rounded
PiFix == 51472

\* tan(pi/8) * 2^FixBits: above it atan is reduced around pi/4
TanPi8Fix == 6786

\* x * 2^bits rounded to the nearest integer
ToFix(x, bits) ==
    LET s == x[2] + bits
    IN IF s >= 0 THEN x[1] * 2^s
       ELSE IF -s >= 30 THEN 0
       ELSE Sgn(x[1]) * ((AbsInt(x[1]) + 2^(-s - 1)) \div 2^(-s))

\* rounded integer quotient, b > 0
RDiv(a, b) == (2 * a + b) \div (2 * b)

\* the largest r in lo..hi with r*r <= n
RECURSIVE ISqrt(_, _, _)
ISqrt(n, lo, hi) ==
    IF lo >= hi THEN lo
    ELSE LET mid == (lo + hi + 1) \div 2
         IN IF mid * mid <= n THEN ISqrt(n, mid, hi) ELSE ISqrt(n, lo, mid - 1)

\* hypot(a, b) = max * sqrt(1 + (min/max)^2); hypot(x, 0) = |x| exactly
hypot(a, b) ==
    LET Root(t)        == ISqrt((One + (t * t) \div One) * One, One, 2 * One)
        Scaled(hi, lo) == IF lo[1] = 0 THEN hi
                          ELSE Norm(hi[1] * Root(ToFix(Div(lo, hi), FixBits)), hi[2] - FixBits)
    IN IF Lt(Fabs(a), Fabs(b)) THEN Scaled(Fabs(b), Fabs(a)) ELSE Scaled(Fabs(a), Fabs(b))

\* atan(u) for 0 <= u <= tan(pi/8): u - u^3/3 + u^5/5 - u^7/7 + u^9/9
AtanSeries(u) ==
    LET Poly(u2) ==
            One - RDiv(u2 * (One \div 3 - RDiv(u2 * (One \div 5 - RDiv(u2 * (One \div 7
                - RDiv(u2 * (One \div 9), One)), One)), One)), One)
    IN RDiv(u * Poly(RDiv(u * u, One)), One)

\* atan(t) for 0 <= t <= 1, in fixed point
AtanFix(t) ==
    IF t > TanPi8Fix
    THEN PiFix \div 4 - AtanSeries(RDiv((One - t) * One, One + t))
    ELSE AtanSeries(t)

pi == Norm(PiFix, -FixBits)

\* x # 0 and |x| < 2^-k
Tiny(x, k) == x[1] # 0 /\ x[2] + Prec <= -k

\* atan2(y, x): the angle of the point (x, y), in (-pi, pi]; zeros are +0.0
atan2(y, x) ==
    LET Octant(steep, a) == IF steep
                            THEN (IF x[1] > 0 THEN PiFix \div 2 - a ELSE PiFix \div 2 + a)
                            ELSE (IF x[1] > 0 THEN a ELSE PiFix - a)
        Theta(steep, t)  == IF ~steep /\ x[1] > 0 /\ Tiny(t, 6)
                            THEN <<Sgn(y[1]) * t[1], t[2]>>
                            ELSE Norm(Sgn(y[1]) * Octant(steep, AtanFix(ToFix(t, FixBits))),
                                      -FixBits)
        Ratio(ay, ax)    == IF Lt(ax, ay) THEN Theta(TRUE, Div(ax, ay))
                            ELSE Theta(FALSE, Div(ay, ax))
    IN IF y[1] = 0 THEN (IF x[1] >= 0 THEN Zero ELSE pi)
       ELSE IF x[1] = 0 THEN Norm(Sgn(y[1]) * (PiFix \div 2), -FixBits)
       ELSE Ratio(Fabs(y), Fabs(x))

\* sin(y) for |y| <= pi/4, y and the result with FixBits+1 fractional bits
SinSeries(y) ==
    LET o        == 2 * One
        Poly(y2) == o - RDiv(RDiv(y2 * (o - RDiv(RDiv(y2 * (o - RDiv(y2, 42)), o), 20)), o), 6)
    IN RDiv(y * Poly(RDiv(y * y, o)), o)

\* cos(y) for |y| <= pi/4
CosSeries(y) ==
    LET o        == 2 * One
        Poly(y2) == o - RDiv(RDiv(y2 * (o - RDiv(RDiv(y2 * (o - RDiv(RDiv(y2 * (o
                        - RDiv(y2, 56)), o), 30)), o), 12)), o), 2)
    IN Poly(RDiv(y * y, o))

\* x = k * pi/2 + y with |y| <= pi/4: <<k mod 4, y>>
Reduce(x) ==
    LET Split(xf, k) == <<k % 4, 2 * xf - k * PiFix>>
        Turn(xf)     == Split(xf, (4 * xf + PiFix) \div (2 * PiFix))
    IN Turn(ToFix(x, FixBits))

sin(x) ==
    LET Quadrant(r) == CASE r[1] = 0 -> SinSeries(r[2])
                         [] r[1] = 1 -> CosSeries(r[2])
                         [] r[1] = 2 -> -SinSeries(r[2])
                         [] OTHER    -> -CosSeries(r[2])
    IN IF x[1] = 0 \/ Tiny(x, 7) THEN x
       ELSE Norm(Quadrant(Reduce(x)), -(FixBits + 1))

cos(x) ==
    LET Quadrant(r) == CASE r[1] = 0 -> CosSeries(r[2])
                         [] r[1] = 1 -> -SinSeries(r[2])
                         [] r[1] = 2 -> -CosSeries(r[2])
                         [] OTHER    -> SinSeries(r[2])
    IN Norm(Quadrant(Reduce(x)), -(FixBits + 1))

degrees(x) == Mul(x, Div(FromInt(180), pi))

radians(x) == Mul(x, Div(pi, FromInt(180)))

\* Python's float a % b for b > 0 and |a| < b: fmod(a, b) = a, and a negative
\* remainder has b added to it (a rounded addition)
PyMod(a, b) == IF a[1] < 0 THEN Add(a, b) ELSE a

(***************************************************************************)
(* enu.py: module state.  vectorize is numpy.vectorize, or None (FALSE)    *)
(* when numpy cannot be imported; tau is 2 * pi.                           *)
(***************************************************************************)
VARIABLES vectorize, tau, call, pc, ret, back, log, tcall, tpc, frame, tret

vars == <<vectorize, tau, call, pc, ret, back, log, tcall, tpc, frame, tret>>

\* one program's call and what it got
program == <<call, pc, ret, back, log>>

\* the concurrent callers: each one's call, position, local variables, result
threads == <<tcall, tpc, frame, tret>>

\* tau = 2 * pi
TwoPi == Mul(FromInt(2), pi)

\* the literal 1e-3
Millimeter == Dec(1, 1000)

NoError == "none"

Returned(v) == [err |-> NoError, val |-> v]

Raised(e) == [err |-> e, val |-> <<>>]

(***************************************************************************)
(* Values handed to the entry points: a scalar (0-d) or a 1-d array.       *)
(***************************************************************************)
Scalar(x) == [dim |-> 0, v |-> <<x>>]

Array(s) == [dim |-> 1, v |-> s]

Elem(a, i) == IF a.dim = 0 THEN a.v[1] ELSE a.v[i]

MaxOf(S) == CHOOSE x \in S : \A y \in S : y <= x

MinOf(S) == CHOOSE x \in S : \A y \in S : x <= y

\* the broadcast shape of three operands (arrays of one call have one length)
BroadcastDim(a, b, c) == MaxOf({a.dim, b.dim, c.dim})

BroadcastLen(a, b, c) == MaxOf({Len(a.v), Len(b.v), Len(c.v)})

\* numpy.vectorize(f)(...): f on every element; the first exception raised
\* leaves the call, otherwise the three outputs are collected elementwise
Gather(outs, dim) ==
    LET bad == {i \in DOMAIN outs : outs[i].err # NoError}
    IN IF bad # {}
       THEN Raised(outs[MinOf(bad)].err)
       ELSE Returned(<<[dim |-> dim, v |-> [i \in DOMAIN outs |-> outs[i].val[1]]],
                       [dim |-> dim, v |-> [i \in DOMAIN outs |-> outs[i].val[2]]],
                       [dim |-> dim, v |-> [i \in DOMAIN outs |-> outs[i].val[3]]]>>)

(***************************************************************************)
(* ENU <-> AER                                                             *)
(***************************************************************************)
\* mutant: no snap-to-zero at all
Snap_off(x) == x

\* mutant: a component of exactly 1e-3 is snapped too
Snap_inclusive(x) == IF Le(Fabs(x), Millimeter) THEN Zero ELSE x

Snap(x) == IF Lt(Fabs(x), Millimeter) THEN Zero ELSE x

\* mutant: azimuth counter-clockwise from east, atan2(n, e)
enu2aer_point_from_east(e, n, u, deg) ==
    LET Out(az, elev, slantRange) ==
            IF deg
            THEN Returned(<<degrees(az), degrees(elev), slantRange>>)
            ELSE Returned(<<az, elev, slantRange>>)
        Polar(e1, n1, u1, r) ==
            Out(PyMod(atan2(n1, e1), tau), atan2(u1, r), hypot(r, u1))
        Snapped(e1, n1, u1)  == Polar(e1, n1, u1, hypot(e1, n1))
    IN Snapped(Snap(e), Snap(n), Snap(u))

\* mutant: with deg only the azimuth is converted to degrees
enu2aer_point_az_only(e, n, u, deg) ==
    LET Out(az, elev, slantRange) ==
            IF deg
            THEN Returned(<<degrees(az), elev, slantRange>>)
            ELSE Returned(<<az, elev, slantRange>>)
        Polar(e1, n1, u1, r) ==
            Out(PyMod(atan2(e1, n1), tau), atan2(u1, r), hypot(r, u1))
        Snapped(e1, n1, u1)  == Polar(e1, n1, u1, hypot(e1, n1))
    IN Snapped(Snap(e), Snap(n), Snap(u))

enu2aer_point(e, n, u, deg) ==
    LET Out(az, elev, slantRange) ==
            IF deg
            THEN Returned(<<degrees(az), degrees(elev), slantRange>>)
            ELSE Returned(<<az, elev, slantRange>>)
        Polar(e1, n1, u1, r) ==
            Out(PyMod(atan2(e1, n1), tau), atan2(u1, r), hypot(r, u1))
        Snapped(e1, n1, u1)  == Polar(e1, n1, u1, hypot(e1, n1))
    IN Snapped(Snap(e), Snap(n), Snap(u))

\* without numpy the point function gets the arguments as they are: abs() of
\* a list is a TypeError
enu2aer(e, n, u, deg) ==
    IF vectorize
    THEN Gather([i \in 1..BroadcastLen(e, n, u) |->
                    enu2aer_point(Elem(e, i), Elem(n, i), Elem(u, i), deg)],
                BroadcastDim(e, n, u))
    ELSE IF BroadcastDim(e, n, u) > 0
         THEN Raised("TypeError")
         ELSE Gather(<<enu2aer_point(Elem(e, 1), Elem(n, 1), Elem(u, 1), deg)>>, 0)

\* mutant: the slant range is not checked
aer2enu_point_unchecked(az, el, srange, deg) ==
    LET Project(az1, el1, r) ==
            Returned(<<Mul(r, sin(az1)), Mul(r, cos(az1)), Mul(srange, sin(el1))>>)
        Checked(az1, el1) ==
            Project(az1, el1, Mul(srange, cos(el1)))
    IN Checked(IF deg THEN radians(az) ELSE az, IF deg THEN radians(el) ELSE el)

\* mutant: east and north exchanged
aer2enu_point_swapped(az, el, srange, deg) ==
    LET Project(az1, el1, r) ==
            Returned(<<Mul(r, cos(az1)), Mul(r, sin(az1)), Mul(srange, sin(el1))>>)
        Checked(az1, el1) ==
            IF Lt(srange, Zero) THEN Raised("ValueError")
            ELSE Project(az1, el1, Mul(srange, cos(el1)))
    IN Checked(IF deg THEN radians(az) ELSE az, IF deg THEN radians(el) ELSE el)

aer2enu_point(az, el, srange, deg) ==
    LET Project(az1, el1, r) ==
            Returned(<<Mul(r, sin(az1)), Mul(r, cos(az1)), Mul(srange, sin(el1))>>)
        Checked(az1, el1) ==
            IF Lt(srange, Zero) THEN Raised("ValueError")
            ELSE Project(az1, el1, Mul(srange, cos(el1)))
    IN Checked(IF deg THEN radians(az) ELSE az, IF deg THEN radians(el) ELSE el)

aer2enu(az, el, srange, deg) ==
    IF vectorize
    THEN Gather([i \in 1..BroadcastLen(az, el, srange) |->
                    aer2enu_point(Elem(az, i), Elem(el, i), Elem(srange, i), deg)],
                BroadcastDim(az, el, srange))
    ELSE IF BroadcastDim(az, el, srange) > 0
         THEN Raised("TypeError")
         ELSE Gather(<<aer2enu_point(Elem(az, 1), Elem(el, 1), Elem(srange, 1), deg)>>, 0)

(***************************************************************************)
(* The collaborators imported from .ecef and .ellipsoid, after the         *)
(* specification: geodetic <-> ECEF on the reference ellipsoid and the     *)
(* rotation between ECEF differences and the local ENU frame.  The         *)
(* ellipsoid is an opaque value; the model takes spheres (ell = None is    *)
(* the default one), and a malformed ellipsoid makes a collaborator fail.  *)
(***************************************************************************)
Ellipsoids == {"None", "custom", "malformed"}

Radius(ell) == IF ell = "None" THEN FromInt(8) ELSE FromInt(6)

InRadians(x, deg) == IF deg THEN radians(x) ELSE x

geodetic2ecef(lat, lon, h, ell, deg) ==
    LET Polar(lo, c, z)   == Returned(<<Mul(c, cos(lo)), Mul(c, sin(lo)), z>>)
        Cart(la, lo, rho) == Polar(lo, Mul(rho, cos(la)), Mul(rho, sin(la)))
    IN IF ell = "malformed" THEN Raised("CollaboratorError")
       ELSE Cart(InRadians(lat, deg), InRadians(lon, deg), Add(Radius(ell), h))

ecef2geodetic(x, y, z, ell, deg) ==
    LET Out(lat, lon, alt) == IF deg THEN Returned(<<degrees(lat), degrees(lon), alt>>)
                              ELSE Returned(<<lat, lon, alt>>)
        Polar(r)           == Out(atan2(z, r), atan2(y, x), Sub(hypot(r, z), Radius(ell)))
    IN IF ell = "malformed" THEN Raised("CollaboratorError")
       ELSE Polar(hypot(x, y))

\* the rotation of an ECEF difference into the ENU frame at (lat0, lon0)
uvw2enu(u, v, w, lat0, lon0, deg) ==
    LET Tilt(cla, sla, east, t)    == Returned(<<east, Sub(Mul(cla, w), Mul(sla, t)),
                                                 Add(Mul(cla, t), Mul(sla, w))>>)
        Rotate(cla, sla, clo, slo) == Tilt(cla, sla, Sub(Mul(clo, v), Mul(slo, u)),
                                           Add(Mul(clo, u), Mul(slo, v)))
        At(la, lo)                 == Rotate(cos(la), sin(la), cos(lo), sin(lo))
    IN At(InRadians(lat0, deg), InRadians(lon0, deg))

\* the inverse rotation
enu2uvw(east, north, up, lat0, lon0, deg) ==
    LET Turn(clo, slo, t, w)       == <<Sub(Mul(clo, t), Mul(slo, east)),
                                        Add(Mul(slo, t), Mul(clo, east)), w>>
        Rotate(cla, sla, clo, slo) == Turn(clo, slo, Sub(Mul(cla, up), Mul(sla, north)),
                                           Add(Mul(sla, up), Mul(cla, north)))
        At(la, lo)                 == Rotate(cos(la), sin(la), cos(lo), sin(lo))
    IN At(InRadians(lat0, deg), InRadians(lon0, deg))

enu2ecef(e, n, u, lat0, lon0, h0, ell, deg) ==
    LET Shift(o, d) == IF o.err # NoError THEN o
                       ELSE Returned(<<Add(o.val[1], d[1]), Add(o.val[2], d[2]),
                                       Add(o.val[3], d[3])>>)
    IN Shift(geodetic2ecef(lat0, lon0, h0, ell, deg), enu2uvw(e, n, u, lat0, lon0, deg))

(***************************************************************************)
(* ENU <-> geodetic: the composition of the collaborators.  Each operator  *)
(* gives what the call returns (or raises) and the collaborator calls it   *)
(* made, in order, with their arguments.                                   *)
(***************************************************************************)
CallOf(fn, a) == [fn |-> fn, args |-> a]

\* mutant: deg is not handed on to the ECEF -> geodetic stage (its default is True)
enu2geodetic_default_deg(e, n, u, lat0, lon0, h0, ell, deg) ==
    LET Stages(c1, k1) ==
            IF c1.err # NoError THEN [ret |-> c1, calls |-> <<k1>>]
            ELSE [ret   |-> ecef2geodetic(c1.val[1], c1.val[2], c1.val[3], ell, TRUE),
                  calls |-> <<k1, CallOf("ecef2geodetic",
                                         <<c1.val[1], c1.val[2], c1.val[3], ell, TRUE>>)>>]
    IN Stages(enu2ecef(e, n, u, lat0, lon0, h0, ell, deg),
              CallOf("enu2ecef", <<e, n, u, lat0, lon0, h0, ell, deg>>))

enu2geodetic(e, n, u, lat0, lon0, h0, ell, deg) ==
    LET Stages(c1, k1) ==
            IF c1.err # NoError THEN [ret |-> c1, calls |-> <<k1>>]
            ELSE [ret   |-> ecef2geodetic(c1.val[1], c1.val[2], c1.val[3], ell, deg),
                  calls |-> <<k1, CallOf("ecef2geodetic",
                                         <<c1.val[1], c1.val[2], c1.val[3], ell, deg>>)>>]
    IN Stages(enu2ecef(e, n, u, lat0, lon0, h0, ell, deg),
              CallOf("enu2ecef", <<e, n, u, lat0, lon0, h0, ell, deg>>))

\* mutant: the difference is taken observer minus target
geodetic2enu_reversed(lat, lon, h, lat0, lon0, h0, ell, deg) ==
    LET Rotate(k1, k2, dx, dy, dz) ==
            [ret   |-> uvw2enu(dx, dy, dz, lat0, lon0, deg),
             calls |-> <<k1, k2, CallOf("uvw2enu", <<dx, dy, dz, lat0, lon0, deg>>)>>]
        Stages(c1, c2, k1, k2) ==
            IF c1.err # NoError THEN [ret |-> c1, calls |-> <<k1>>]
            ELSE IF c2.err # NoError THEN [ret |-> c2, calls |-> <<k1, k2>>]
            ELSE Rotate(k1, k2, Sub(c2.val[1], c1.val[1]), Sub(c2.val[2], c1.val[2]),
                        Sub(c2.val[3], c1.val[3]))
    IN Stages(geodetic2ecef(lat, lon, h, ell, deg), geodetic2ecef(lat0, lon0, h0, ell, deg),
              CallOf("geodetic2ecef", <<lat, lon, h, ell, deg>>),
              CallOf("geodetic2ecef", <<lat0, lon0, h0, ell, deg>>))

geodetic2enu(lat, lon, h, lat0, lon0, h0, ell, deg) ==
    LET Rotate(k1, k2, dx, dy, dz) ==
            [ret   |-> uvw2enu(dx, dy, dz, lat0, lon0, deg),
             calls |-> <<k1, k2, CallOf("uvw2enu", <<dx, dy, dz, lat0, lon0, deg>>)>>]
        Stages(c1, c2, k1, k2) ==
            IF c1.err # NoError THEN [ret |-> c1, calls |-> <<k1>>]
            ELSE IF c2.err # NoError THEN [ret |-> c2, calls |-> <<k1, k2>>]
            ELSE Rotate(k1, k2, Sub(c1.val[1], c2.val[1]), Sub(c1.val[2], c2.val[2]),
                        Sub(c1.val[3], c2.val[3]))
    IN Stages(geodetic2ecef(lat, lon, h, ell, deg), geodetic2ecef(lat0, lon0, h0, ell, deg),
              CallOf("geodetic2ecef", <<lat, lon, h, ell, deg>>),
              CallOf("geodetic2ecef", <<lat0, lon0, h0, ell, deg>>))

(***************************************************************************)
(* Concurrent callers.  Every call runs the statements of its function on  *)
(* local variables of its own; the statements of different callers         *)
(* interleave.  The only names read outside the frame are the module's     *)
(* vectorize and tau.                                                      *)
(***************************************************************************)
Threads == {"t1", "t2"}

Locals == {"e", "n", "u", "deg", "r", "slantRange", "elev", "az", "el", "srange",
           "lat", "lon", "h", "lat0", "lon0", "h0", "ell", "p1", "p2"}

NoLocals == [name \in Locals |-> Zero]

NoCall == [op |-> "none", args |-> <<>>]

Params(name) ==
    CASE name = "enu2aer"      -> <<"e", "n", "u", "deg">>
      [] name = "aer2enu"      -> <<"az", "el", "srange", "deg">>
      [] name = "geodetic2enu" -> <<"lat", "lon", "h", "lat0", "lon0", "h0", "ell", "deg">>
      [] OTHER                 -> <<"e", "n", "u", "lat0", "lon0", "h0", "ell", "deg">>

FirstStatement(name) ==
    CASE name = "enu2aer"      -> "snap_e"
      [] name = "aer2enu"      -> "rad_el"
      [] name = "geodetic2enu" -> "ecef_target"
      [] OTHER                 -> "enu2ecef"

\* the frame of a new call: the parameters bound to the arguments
Bind(c) ==
    LET ps == Params(c.op)
    IN [name \in Locals |->
           IF \E k \in DOMAIN ps : ps[k] = name
           THEN c.args[CHOOSE k \in DOMAIN ps : ps[k] = name]
           ELSE Zero]

\* mutant: the name is a module global, shared by every caller
AssignShared(t, name, v) == [s \in Threads |-> [frame[s] EXCEPT ![name] = v]]

\* name = v in the frame of caller t
Assign(t, name, v) == [frame EXCEPT ![t][name] = v]

Goto(t, label) == tpc' = [tpc EXCEPT ![t] = label]

Return(t, r) == tret' = [tret EXCEPT ![t] = r] /\ Goto(t, "done") /\ UNCHANGED frame

ConcCalls ==
    {[op |-> "enu2aer", args |-> <<Dec(1, 2000), FromInt(-10), FromInt(5), TRUE>>],
     [op |-> "enu2aer", args |-> <<FromInt(10), FromInt(10), Zero, FALSE>>],
     [op |-> "aer2enu", args |-> <<FromInt(45), Zero, FromInt(10), TRUE>>],
     [op |-> "aer2enu", args |-> <<Zero, Zero, FromInt(-5), TRUE>>],
     [op |-> "geodetic2enu",
      args |-> <<FromInt(45), FromInt(45), FromInt(1), Zero, FromInt(90), Zero, "custom", TRUE>>],
     [op |-> "enu2geodetic",
      args |-> <<FromInt(2), FromInt(-1), Zero, FromInt(45), Zero, FromInt(1), "None", TRUE>>],
     [op |-> "enu2geodetic",
      args |-> <<FromInt(2), FromInt(-1), Zero, FromInt(45), Zero, FromInt(1), "malformed", TRUE>>]}

Start(t) ==
    /\ tpc[t] \in {"idle", "done"}
    /\ \E c \in ConcCalls :
          /\ tcall' = [tcall EXCEPT ![t] = c]
          /\ frame' = [frame EXCEPT ![t] = Bind(c)]
          /\ Goto(t, FirstStatement(c.op))
    /\ tret' = [tret EXCEPT ![t] = Returned(<<>>)]
    /\ UNCHANGED <<vectorize, tau, program>>

Running(t, name) == tcall[t].op = name /\ tpc[t] \notin {"idle", "done"}

StepEnu2aer(t) ==
    /\ Running(t, "enu2aer")
    /\ LET f == frame[t]
       IN CASE tpc[t] = "snap_e" ->
                 /\ frame' = IF Lt(Fabs(f.e), Millimeter) THEN Assign(t, "e", Zero) ELSE frame
                 /\ Goto(t, "snap_n") /\ UNCHANGED tret
            [] tpc[t] = "snap_n" ->
                 /\ frame' = IF Lt(Fabs(f.n), Millimeter) THEN Assign(t, "n", Zero) ELSE frame
                 /\ Goto(t, "snap_u") /\ UNCHANGED tret
            [] tpc[t] = "snap_u" ->
                 /\ frame' = IF Lt(Fabs(f.u), Millimeter) THEN Assign(t, "u", Zero) ELSE frame
                 /\ Goto(t, "r") /\ UNCHANGED tret
            [] tpc[t] = "r" ->
                 /\ frame' = Assign(t, "r", hypot(f.e, f.n))
                 /\ Goto(t, "slantRange") /\ UNCHANGED tret
            [] tpc[t] = "slantRange" ->
                 /\ frame' = Assign(t, "slantRange", hypot(f.r, f.u))
                 /\ Goto(t, "elev") /\ UNCHANGED tret
            [] tpc[t] = "elev" ->
                 /\ frame' = Assign(t, "elev", atan2(f.u, f.r))
                 /\ Goto(t, "az") /\ UNCHANGED tret
            [] tpc[t] = "az" ->
                 /\ frame' = Assign(t, "az", PyMod(atan2(f.e, f.n), tau))
                 /\ Goto(t, IF f.deg THEN "deg_az" ELSE "return") /\ UNCHANGED tret
            [] tpc[t] = "deg_az" ->
                 /\ frame' = Assign(t, "az", degrees(f.az))
                 /\ Goto(t, "deg_elev") /\ UNCHANGED tret
            [] tpc[t] = "deg_elev" ->
                 /\ frame' = Assign(t, "elev", degrees(f.elev))
                 /\ Goto(t, "return") /\ UNCHANGED tret
            [] OTHER ->
                 Return(t, Returned(<<Scalar(f.az), Scalar(f.elev), Scalar(f.slantRange)>>))
    /\ UNCHANGED <<vectorize, tau, program, tcall>>

StepAer2enu(t) ==
    /\ Running(t, "aer2enu")
    /\ LET f == frame[t]
       IN CASE tpc[t] = "rad_el" ->
                 /\ frame' = IF f.deg THEN Assign(t, "el", radians(f.el)) ELSE frame
                 /\ Goto(t, "rad_az") /\ UNCHANGED tret
            [] tpc[t] = "rad_az" ->
                 /\ frame' = IF f.deg THEN Assign(t, "az", radians(f.az)) ELSE frame
                 /\ Goto(t, "check") /\ UNCHANGED tret
            [] tpc[t] = "check" ->
                 IF Lt(f.srange, Zero) THEN Return(t, Raised("ValueError"))
                 ELSE Goto(t, "r") /\ UNCHANGED <<frame, tret>>
            [] tpc[t] = "r" ->
                 /\ frame' = Assign(t, "r", Mul(f.srange, cos(f.el)))
                 /\ Goto(t, "return") /\ UNCHANGED tret
            [] OTHER ->
                 Return(t, Returned(<<Scalar(Mul(f.r, sin(f.az))), Scalar(Mul(f.r, cos(f.az))),
                                      Scalar(Mul(f.srange, sin(f.el)))>>))
    /\ UNCHANGED <<vectorize, tau, program, tcall>>

StepGeodetic2enu(t) ==
    /\ Running(t, "geodetic2enu")
    /\ LET f == frame[t]
       IN CASE tpc[t] = "ecef_target" ->
                 LET c == geodetic2ecef(f.lat, f.lon, f.h, f.ell, f.deg)
                 IN IF c.err # NoError THEN Return(t, c)
                    ELSE /\ frame' = Assign(t, "p1", c.val)
                         /\ Goto(t, "ecef_observer") /\ UNCHANGED tret
            [] tpc[t] = "ecef_observer" ->
                 LET c == geodetic2ecef(f.lat0, f.lon0, f.h0, f.ell, f.deg)
                 IN IF c.err # NoError THEN Return(t, c)
                    ELSE /\ frame' = Assign(t, "p2", c.val)
                         /\ Goto(t, "return") /\ UNCHANGED tret
            [] OTHER ->
                 Return(t, uvw2enu(Sub(f.p1[1], f.p2[1]), Sub(f.p1[2], f.p2[2]),
                                   Sub(f.p1[3], f.p2[3]), f.lat0, f.lon0, f.deg))
    /\ UNCHANGED <<vectorize, tau, program, tcall>>

StepEnu2geodetic(t) ==
    /\ Running(t, "enu2geodetic")
    /\ LET f == frame[t]
       IN CASE tpc[t] = "enu2ecef" ->
                 LET c == enu2ecef(f.e, f.n, f.u, f.lat0, f.lon0, f.h0, f.ell, f.deg)
                 IN IF c.err # NoError THEN Return(t, c)
                    ELSE /\ frame' = Assign(t, "p1", c.val)
                         /\ Goto(t, "return") /\ UNCHANGED tret
            [] OTHER ->
                 Return(t, ecef2geodetic(f.p1[1], f.p1[2], f.p1[3], f.ell, f.deg))
    /\ UNCHANGED <<vectorize, tau, program, tcall>>

(***************************************************************************)
(* The calls a program makes: one call, drawn at the start, and then the   *)
(* inverse conversion applied to what the call returned.                   *)
(***************************************************************************)
Signed(S) == S \cup {Neg(x) : x \in S}

\* ENU coordinates in metres: 0, half a millimetre, a millimetre and up
Coord == Signed({Zero, Dec(1, 2000), Dec(1, 1000), FromInt(1), FromInt(5), FromInt(10),
                 FromInt(1000)})

\* elements of the array arguments: east around the threshold, north and up
ArrEast == {Dec(1, 2000), Dec(1, 1000), FromInt(-10)}

ArrCoord == {Dec(1, 2000), FromInt(-10)}

\* angles of the AER inputs, in degrees
AngleDeg == {FromInt(0), FromInt(45), FromInt(90), FromInt(180), FromInt(270), FromInt(-90)}

Angle(deg) == IF deg THEN AngleDeg ELSE {radians(a) : a \in AngleDeg}

Range == {FromInt(-5), Neg(Dec(1, 1000)), Zero, FromInt(5), FromInt(10)}

ArrAngle(deg) == IF deg THEN {FromInt(0), FromInt(90)}
                 ELSE {Zero, radians(FromInt(90))}

ArrRange == {FromInt(-5), Zero, FromInt(5)}

\* a scalar of S, or an array of the given length over S
Operand(S, len) == {Scalar(x) : x \in S} \cup {Array(s) : s \in [1..len -> S]}

Scalars(S) == {Scalar(x) : x \in S}

Enu2aerCalls ==
    (Scalars(Coord) \X Scalars(Coord) \X Scalars(Coord) \X BOOLEAN)
    \cup UNION {Operand(ArrEast, len) \X Operand(ArrCoord, len) \X Operand(ArrCoord, len)
                \X BOOLEAN : len \in 1..MaxLen}

Aer2enuCalls ==
    UNION {Scalars(Angle(deg)) \X Scalars(Angle(deg)) \X Scalars(Range) \X {deg}
           : deg \in BOOLEAN}
    \cup UNION {Operand(ArrAngle(deg), len) \X Operand(ArrAngle(deg), len)
                \X Operand(ArrRange, len) \X {deg} : deg \in BOOLEAN, len \in 1..MaxLen}

\* geodetic targets and observers: latitude, longitude (degrees), height
TargetLat == {FromInt(-45), Zero, FromInt(45)}

TargetLon == {FromInt(-90), Zero, FromInt(45), FromInt(180)}

ObserverLat == {Zero, FromInt(45), FromInt(90)}

ObserverLon == {Zero, FromInt(90)}

Height == {Zero, FromInt(1)}

Offset == {FromInt(-1), Zero, FromInt(2)}

InUnit(S, deg) == IF deg THEN S ELSE {radians(a) : a \in S}

Geodetic2enuCalls ==
    UNION {InUnit(TargetLat, deg) \X InUnit(TargetLon, deg) \X Height
           \X InUnit(ObserverLat, deg) \X InUnit(ObserverLon, deg) \X Height
           \X Ellipsoids \X {deg} : deg \in BOOLEAN}

Enu2geodeticCalls ==
    UNION {Offset \X Offset \X Offset
           \X InUnit(ObserverLat, deg) \X InUnit(ObserverLon, deg) \X Height
           \X Ellipsoids \X {deg} : deg \in BOOLEAN}

Calls ==
    [op : {"enu2aer"}, args : Enu2aerCalls]
    \cup [op : {"aer2enu"}, args : Aer2enuCalls]
    \cup [op : {"geodetic2enu"}, args : Geodetic2enuCalls]
    \cup [op : {"enu2geodetic"}, args : Enu2geodeticCalls]

Init ==
    /\ vectorize \in BOOLEAN
    /\ tau = TwoPi
    /\ call \in Calls
    /\ pc = "start"
    /\ ret = Returned(<<>>)
    /\ back = Returned(<<>>)
    /\ log = <<>>
    /\ tcall = [t \in Threads |-> NoCall]
    /\ tpc = [t \in Threads |-> "idle"]
    /\ frame = [t \in Threads |-> NoLocals]
    /\ tret = [t \in Threads |-> Returned(<<>>)]

Enu2aer ==
    /\ pc = "start"
    /\ call.op = "enu2aer"
    /\ ret' = enu2aer(call.args[1], call.args[2], call.args[3], call.args[4])
    /\ pc' = "returned"
    /\ UNCHANGED <<vectorize, tau, call, back, log, threads>>

Aer2enu ==
    \/ /\ pc = "start"
       /\ call.op = "aer2enu"
       /\ ret' = aer2enu(call.args[1], call.args[2], call.args[3], call.args[4])
       /\ pc' = "returned"
       /\ UNCHANGED <<vectorize, tau, call, back, log, threads>>
    \/ /\ pc = "returned"
       /\ call.op = "enu2aer"
       /\ ret.err = NoError
       /\ back' = aer2enu(ret.val[1], ret.val[2], ret.val[3], call.args[4])
       /\ pc' = "back"
       /\ UNCHANGED <<vectorize, tau, call, ret, log, threads>>

Geodetic2enu ==
    /\ pc = "start"
    /\ call.op = "geodetic2enu"
    /\ LET r == geodetic2enu(call.args[1], call.args[2], call.args[3], call.args[4],
                             call.args[5], call.args[6], call.args[7], call.args[8])
       IN ret' = r.ret /\ log' = r.calls
    /\ pc' = "returned"
    /\ UNCHANGED <<vectorize, tau, call, back, threads>>

Enu2geodetic ==
    \/ /\ pc = "start"
       /\ call.op = "enu2geodetic"
       /\ LET r == enu2geodetic(call.args[1], call.args[2], call.args[3], call.args[4],
                                call.args[5], call.args[6], call.args[7], call.args[8])
          IN ret' = r.ret /\ log' = r.calls
       /\ pc' = "returned"
       /\ UNCHANGED <<vectorize, tau, call, back, threads>>
    \/ /\ pc = "returned"
       /\ call.op = "geodetic2enu"
       /\ ret.err = NoError
       /\ LET r == enu2geodetic(ret.val[1], ret.val[2], ret.val[3], call.args[4],
                                call.args[5], call.args[6], call.args[7], call.args[8])
          IN back' = r.ret /\ log' = r.calls
       /\ pc' = "back"
       /\ UNCHANGED <<vectorize, tau, call, ret, threads>>

Next == Enu2aer \/ Aer2enu \/ Geodetic2enu \/ Enu2geodetic

Spec == Init /\ [][Next]_vars

\* the module imported, nobody calling yet
InitConc ==
    /\ vectorize \in BOOLEAN
    /\ tau = TwoPi
    /\ call = NoCall
    /\ pc = "idle"
    /\ ret = Returned(<<>>)
    /\ back = Returned(<<>>)
    /\ log = <<>>
    /\ tcall = [t \in Threads |-> NoCall]
    /\ tpc = [t \in Threads |-> "idle"]
    /\ frame = [t \in Threads |-> NoLocals]
    /\ tret = [t \in Threads |-> Returned(<<>>)]

NextConc ==
    \E t \in Threads :
        \/ Start(t)
        \/ StepEnu2aer(t)
        \/ StepAer2enu(t)
        \/ StepGeodetic2enu(t)
        \/ StepEnu2geodetic(t)

SpecConc == InitConc /\ [][NextConc]_vars

(***************************************************************************)
(* Reading a state.                                                        *)
(***************************************************************************)
Called(name) == pc # "start" /\ call.op = name

Deg == call.args[4]

\* the indices of the elementwise call
Indices == 1..BroadcastLen(call.args[1], call.args[2], call.args[3])

AllScalar == BroadcastDim(call.args[1], call.args[2], call.args[3]) = 0

\* the i-th element of the k-th argument / of the k-th result
ArgAt(k, i) == Elem(call.args[k], i)

RetAt(k, i) == Elem(ret.val[k], i)

BackAt(k, i) == Elem(back.val[k], i)

FullTurn == IF Deg THEN FromInt(360) ELSE tau

\* the tolerance of a comparison "up to floating-point error": 32 units in
\* the last place of a Prec-bit significand
Tol == Norm(1, 5 - Prec)

Close(x, y, scale) == Le(Fabs(Sub(x, y)), Mul(Tol, Fabs(scale)))

ApproxEq(x, y) == Close(x, y, y)

IsSnapped(x) == Lt(Fabs(x), Millimeter)

(***************************************************************************)
(* C1: aer2enu raises ValueError whenever any element of the slant range   *)
(* is negative (scalar or array, either deg), and then returns no result   *)
(* at all.  Without numpy an array argument is a TypeError before the      *)
(* range is looked at: still no result.                                    *)
(***************************************************************************)
SomeRangeNegative == \E i \in 1..Len(call.args[3].v) : Lt(call.args[3].v[i], Zero)

\* C1: a negative slant range anywhere makes aer2enu raise ValueError and
\* return nothing (without numpy an array argument is a TypeError first)
C1_NegativeRangeRaises ==
    (Called("aer2enu") /\ SomeRangeNegative)
        => /\ ret.err # NoError
           /\ ret.val = <<>>
           /\ (vectorize \/ AllScalar) => ret.err = "ValueError"

\* an array whose first range is fine and whose second is negative
C1_Witness ==
    /\ Called("aer2enu") /\ vectorize
    /\ call.args[3].dim = 1 /\ Len(call.args[3].v) >= 2
    /\ ~Lt(call.args[3].v[1], Zero) /\ Lt(call.args[3].v[2], Zero)
    /\ ret = Raised("ValueError")

(***************************************************************************)
(* C2: the azimuth enu2aer returns lies in [0, 360) degrees, or [0, 2 pi)  *)
(* radians: never negative, never equal to or above the full turn.         *)
(***************************************************************************)
\* x < 2 pi, with 2 pi at the working precision of the elementary functions
\* (the float tau is 2 pi rounded to Prec bits, and lies below 2 pi)
BelowTwoPi(x) == ToFix(x, FixBits) < 2 * PiFix

\* C2: the azimuth enu2aer returns is in [0, 360) degrees, [0, 2 pi) radians
C2_AzimuthInRange ==
    (Called("enu2aer") /\ ret.err = NoError)
        => \A i \in Indices :
              /\ Le(Zero, RetAt(1, i))
              /\ IF Deg THEN Lt(RetAt(1, i), FromInt(360)) ELSE BelowTwoPi(RetAt(1, i))

(***************************************************************************)
(* C3: aer2enu applied to the output of enu2aer (same deg) returns the     *)
(* input again.  As claimed: each component within tolerance of itself,    *)
(* relative to that component, whenever the slant range is positive.       *)
(***************************************************************************)
SlantPositive(i) == \E k \in 1..3 : ArgAt(k, i)[1] # 0

\* C3 as stated: aer2enu of enu2aer returns (e, n, u) within tolerance
\* whenever the slant range is positive
C3_RoundTripOriginal ==
    (pc = "back" /\ call.op = "enu2aer" /\ back.err = NoError)
        => \A i \in Indices : SlantPositive(i)
              => \A k \in 1..3 : Close(BackAt(k, i), ArgAt(k, i), ArgAt(k, i))

\* C3 as amended: the round trip returns the input with every component
\* below one millimetre replaced by 0, each component within tolerance
\* relative to the slant range
C3_RoundTripSnapped ==
    (pc = "back" /\ call.op = "enu2aer")
        => /\ back.err = NoError
           /\ \A i \in Indices : \A k \in 1..3 :
                 Close(BackAt(k, i), Snap(ArgAt(k, i)), RetAt(3, i))

\* a round trip of a point with one snapped and two kept components
C3_Witness ==
    /\ pc = "back" /\ call.op = "enu2aer" /\ AllScalar
    /\ IsSnapped(ArgAt(1, 1)) /\ ArgAt(1, 1)[1] # 0
    /\ ArgAt(2, 1) = FromInt(-10) /\ ArgAt(3, 1) = FromInt(5)
    /\ BackAt(1, 1)[1] # 0

(***************************************************************************)
(* C5: the singularity e = n = 0.  As claimed: whenever e = 0 and n = 0    *)
(* and the target is above or below the observer (u # 0), the azimuth is   *)
(* exactly 0 and the elevation +90 or -90 degrees (+-pi/2).                *)
(***************************************************************************)
QuarterTurn == IF Deg THEN FromInt(90) ELSE Norm(PiFix \div 2, -FixBits)

\* C5 as stated: e = n = 0 gives azimuth 0 and elevation +90 or -90 degrees
C5_SingularityOriginal ==
    (Called("enu2aer") /\ ret.err = NoError)
        => \A i \in Indices :
              (ArgAt(1, i) = Zero /\ ArgAt(2, i) = Zero /\ ArgAt(3, i)[1] # 0)
                 => /\ RetAt(1, i) = Zero
                    /\ RetAt(2, i) \in {QuarterTurn, Neg(QuarterTurn)}

\* C5 as amended: with e and n zero (or snapped to zero), the azimuth is
\* exactly 0; the elevation is +90 / -90 degrees by the sign of u and the
\* range |u| when |u| >= 1e-3, and elevation and range are 0 when |u| < 1e-3;
\* the call never fails
C5_SingularitySnapped ==
    Called("enu2aer") /\ (vectorize \/ AllScalar)
        => /\ ret.err = NoError
           /\ \A i \in Indices :
                 (IsSnapped(ArgAt(1, i)) /\ IsSnapped(ArgAt(2, i)))
                    => /\ RetAt(1, i) = Zero
                       /\ IF IsSnapped(ArgAt(3, i))
                          THEN RetAt(2, i) = Zero /\ RetAt(3, i) = Zero
                          ELSE /\ RetAt(2, i) = (IF ArgAt(3, i)[1] > 0 THEN QuarterTurn
                                                 ELSE Neg(QuarterTurn))
                               /\ RetAt(3, i) = Fabs(ArgAt(3, i))

\* enu2aer(0, 0, 5, deg=True) has returned (0, 90, 5)
C5_Witness ==
    /\ Called("enu2aer") /\ AllScalar /\ Deg
    /\ ArgAt(1, 1) = Zero /\ ArgAt(2, 1) = Zero /\ ArgAt(3, 1) = FromInt(5)
    /\ ret = Returned(<<Scalar(Zero), Scalar(FromInt(90)), Scalar(FromInt(5))>>)

(***************************************************************************)
(* C6: a deg=True call gives the outcome (values or error) of the          *)
(* deg=False call with the angles converted: enu2aer's angles are the      *)
(* radian angles in degrees, aer2enu reads degree angles as their radians; *)
(* the metre-valued quantities and the range check ignore the flag.        *)
(***************************************************************************)
DegreesOf(a) == [dim |-> a.dim, v |-> [i \in DOMAIN a.v |-> degrees(a.v[i])]]

RadiansOf(a) == [dim |-> a.dim, v |-> [i \in DOMAIN a.v |-> radians(a.v[i])]]

AnglesInDegrees(r) ==
    IF r.err # NoError THEN r
    ELSE Returned(<<DegreesOf(r.val[1]), DegreesOf(r.val[2]), r.val[3]>>)

Turns(k) == Mul(FromInt(k), QuarterTurn)

Between(lo, x, hi) == Le(lo, x) /\ Le(x, hi)

Square(x) == Mul(x, x)

\* within two units in the last place
Near(x, y) == Le(Fabs(Sub(x, y)), Mul(Norm(1, 1 - Prec), Fabs(y)))

C7_PointOK(e, n, u, az, el, rng) ==
    /\ (e[1] = 0 /\ n[1] >= 0) => az = Zero
    /\ (e[1] > 0 /\ n[1] = 0) => az = Turns(1)
    /\ (e[1] = 0 /\ n[1] < 0) => az = Turns(2)
    /\ (e[1] < 0 /\ n[1] = 0) => az = Turns(3)
    /\ (e[1] > 0 /\ n[1] > 0) => Lt(Zero, az) /\ Le(az, Turns(1))
    /\ (e[1] > 0 /\ n[1] < 0) => Between(Turns(1), az, Turns(2))
    /\ (e[1] < 0 /\ n[1] < 0) => Between(Turns(2), az, Turns(3))
    /\ (e[1] < 0 /\ n[1] > 0) => Between(Turns(3), az, Turns(4))
    /\ (e = n /\ e[1] > 0) => Near(az, Mul(Dec(1, 2), QuarterTurn))
    /\ u[1] = 0 => el = Zero
    /\ u[1] > 0 => Lt(Zero, el) /\ Le(el, QuarterTurn)
    /\ u[1] < 0 => Lt(el, Zero) /\ Le(Neg(QuarterTurn), el)
    /\ Close(Square(rng), Add(Add(Square(e), Square(n)), Square(u)), Square(rng))
    /\ (e = FromInt(10) /\ n = FromInt(10) /\ u = Zero /\ Deg)
          => az = FromInt(45) /\ Near(rng, Dec(141421, 10000))

\* C7: azimuth clockwise from north, elevation from the horizontal plane,
\* slant range the length of (e, n, u), all after snap-to-zero
C7_Conventions ==
    (Called("enu2aer") /\ ret.err = NoError)
        => \A i \in Indices :
              C7_PointOK(IF IsSnapped(ArgAt(1, i)) THEN Zero ELSE ArgAt(1, i),
                         IF IsSnapped(ArgAt(2, i)) THEN Zero ELSE ArgAt(2, i),
                         IF IsSnapped(ArgAt(3, i)) THEN Zero ELSE ArgAt(3, i),
                         RetAt(1, i), RetAt(2, i), RetAt(3, i))

\* enu2aer(10, 10, 0, deg=True) has returned azimuth 45 and elevation 0
C7_Witness ==
    /\ Called("enu2aer") /\ AllScalar /\ Deg
    /\ ArgAt(1, 1) = FromInt(10) /\ ArgAt(2, 1) = FromInt(10) /\ ArgAt(3, 1) = Zero
    /\ ret.err = NoError
    /\ RetAt(1, 1) = FromInt(45) /\ RetAt(2, 1) = Zero

(***************************************************************************)
(* C9: snap-to-zero.  A component below 1e-3 in absolute value counts as   *)
(* exactly 0 (the result is the result with 0 in its place); a component   *)
(* of 1e-3 or more is used as it is (the slant range is at least as long); *)
(* for an array this is decided element by element: every element of the   *)
(* result is the scalar result for that element.                           *)
(***************************************************************************)
C9_SnapToZero ==
    (Called("enu2aer") /\ (vectorize \/ AllScalar))
        => /\ ret.err = NoError
           /\ \A i \in Indices :
                 /\ <<RetAt(1, i), RetAt(2, i), RetAt(3, i)>>
                       = enu2aer_point(IF IsSnapped(ArgAt(1, i)) THEN Zero ELSE ArgAt(1, i),
                                       IF IsSnapped(ArgAt(2, i)) THEN Zero ELSE ArgAt(2, i),
                                       IF IsSnapped(ArgAt(3, i)) THEN Zero ELSE ArgAt(3, i),
                                       Deg).val
                 /\ \A k \in 1..3 :
                       ~IsSnapped(ArgAt(k, i)) => Le(Fabs(ArgAt(k, i)), RetAt(3, i))

\* an array call whose first east is below the threshold and whose second
\* east is exactly the threshold
C9_Witness ==
    /\ Called("enu2aer") /\ vectorize /\ ret.err = NoError
    /\ call.args[1].dim = 1 /\ Len(call.args[1].v) >= 2
    /\ call.args[1].v[1] = Dec(1, 2000) /\ call.args[1].v[2] = Dec(1, 1000)
    /\ IsSnapped(ArgAt(2, 1)) /\ IsSnapped(ArgAt(3, 1))
    /\ RetAt(3, 1) = Zero /\ RetAt(3, 2) = Dec(1, 1000)

(***************************************************************************)
(* C4: enu2geodetic applied to the output of geodetic2enu, with the same   *)
(* observer, ellipsoid and deg, returns (lat, lon, h) again, up to the     *)
(* round-trip error of the collaborators.                                  *)
(***************************************************************************)
\* within k units in the last place of scale
Within(x, y, k, scale) == Le(Fabs(Sub(x, y)), Mul(Norm(k, -Prec), Fabs(scale)))

\* C4: enu2geodetic of geodetic2enu returns the target it started from
C4_GeodeticRoundTrip ==
    (pc = "back" /\ call.op = "geodetic2enu")
        => /\ back.err = NoError
           /\ Within(back.val[1], call.args[1], 16, IF call.args[8] THEN FromInt(90) ELSE pi)
           /\ Within(back.val[2], call.args[2], 16, IF call.args[8] THEN FromInt(90) ELSE pi)
           /\ Within(back.val[3], call.args[3], 16, Radius(call.args[7]))

\* a round trip of a target off the equator, seen from another place
C4_Witness ==
    /\ pc = "back" /\ call.op = "geodetic2enu" /\ back.err = NoError
    /\ call.args[1][1] > 0 /\ call.args[3][1] > 0
    /\ call.args[1] # call.args[4] /\ call.args[2] # call.args[5]
    /\ back.val[1][1] > 0

(***************************************************************************)
(* C8: the four operations are pure.  Whatever the interleaving with       *)
(* other callers, and whatever was called before (failed calls included),  *)
(* a call's outcome is the outcome of the same call alone; the module's    *)
(* vectorize and tau are as the import left them, and no step writes them. *)
(***************************************************************************)
Alone(c) ==
    CASE c.op = "enu2aer" ->
            enu2aer(Scalar(c.args[1]), Scalar(c.args[2]), Scalar(c.args[3]), c.args[4])
      [] c.op = "aer2enu" ->
            aer2enu(Scalar(c.args[1]), Scalar(c.args[2]), Scalar(c.args[3]), c.args[4])
      [] c.op = "geodetic2enu" ->
            geodetic2enu(c.args[1], c.args[2], c.args[3], c.args[4],
                         c.args[5], c.args[6], c.args[7], c.args[8]).ret
      [] OTHER ->
            enu2geodetic(c.args[1], c.args[2], c.args[3], c.args[4],
                         c.args[5], c.args[6], c.args[7], c.args[8]).ret

C8_OutcomeAsAlone == \A t \in Threads : tpc[t] = "done" => tret[t] = Alone(tcall[t])

\* C8: every finished call has the outcome it has alone, and the module's
\* vectorize and tau are never written
C8_Pure ==
    /\ [](C8_OutcomeAsAlone /\ tau = TwoPi)
    /\ [][vectorize' = vectorize /\ tau' = tau]_vars

\* both callers have finished, one of them with a failed call, each frame
\* holding the locals of its own call
C8_Witness ==
    /\ tpc["t1"] = "done" /\ tpc["t2"] = "done"
    /\ tcall["t1"].op = "enu2aer" /\ tret["t1"].err = NoError
    /\ tcall["t2"].op = "aer2enu" /\ tret["t2"] = Raised("ValueError")
    /\ frame["t1"].slantRange # Zero /\ frame["t2"].srange[1] < 0

(***************************************************************************)
(* C10: the ECEF bridge is the composition of its collaborators, the       *)
(* caller's ell and deg handed to every stage: geodetic2enu is uvw2enu of  *)
(* geodetic2ecef(target) - geodetic2ecef(observer) at (lat0, lon0);        *)
(* enu2geodetic is ecef2geodetic of enu2ecef; a collaborator's error is    *)
(* the call's error.                                                       *)
(***************************************************************************)
C10_Geodetic2enu(a, out, calls) ==
    LET t == geodetic2ecef(a[1], a[2], a[3], a[7], a[8])
        o == geodetic2ecef(a[4], a[5], a[6], a[7], a[8])
        d == <<Sub(t.val[1], o.val[1]), Sub(t.val[2], o.val[2]), Sub(t.val[3], o.val[3])>>
    IN /\ calls[1] = CallOf("geodetic2ecef", <<a[1], a[2], a[3], a[7], a[8]>>)
       /\ IF t.err # NoError
          THEN out = t /\ Len(calls) = 1
          ELSE /\ Len(calls) = 3
               /\ calls[2] = CallOf("geodetic2ecef", <<a[4], a[5], a[6], a[7], a[8]>>)
               /\ calls[3] = CallOf("uvw2enu", <<d[1], d[2], d[3], a[4], a[5], a[8]>>)
               /\ out = uvw2enu(d[1], d[2], d[3], a[4], a[5], a[8])

C10_Enu2geodetic(enu, a, out, calls) ==
    LET c == enu2ecef(enu[1], enu[2], enu[3], a[4], a[5], a[6], a[7], a[8])
    IN /\ calls[1] = CallOf("enu2ecef", <<enu[1], enu[2], enu[3], a[4], a[5], a[6], a[7], a[8]>>)
       /\ IF c.err # NoError
          THEN out = c /\ Len(calls) = 1
          ELSE /\ Len(calls) = 2
               /\ calls[2] = CallOf("ecef2geodetic", <<c.val[1], c.val[2], c.val[3], a[7], a[8]>>)
               /\ out = ecef2geodetic(c.val[1], c.val[2], c.val[3], a[7], a[8])

\* C10: both bridges are the composition of their collaborators, ell and deg
\* handed on unchanged, a collaborator's error returned as it is
C10_Composition ==
    /\ (pc = "returned" /\ call.op = "geodetic2enu") => C10_Geodetic2enu(call.args, ret, log)
    /\ (pc = "returned" /\ call.op = "enu2geodetic")
          => C10_Enu2geodetic(call.args, call.args, ret, log)
    /\ (pc = "back" /\ call.op = "geodetic2enu")
          => C10_Enu2geodetic(ret.val, call.args, back, log)

\* a radian call on the custom ellipsoid went through both stages
C10_Witness ==
    /\ pc = "returned" /\ call.op = "enu2geodetic"
    /\ call.args[7] = "custom" /\ ~call.args[8] /\ call.args[4][1] # 0
    /\ ret.err = NoError /\ Len(log) = 2

=============================================================================
